---- MODULE Spec2Model ----
(***************************************************************************)
(* A model of mara_pipelines/config.py: the overridable configuration      *)
(* accessors and the memoized event_handlers() resolver with its           *)
(* slack_token() backward-compatibility shim.                              *)
(*                                                                         *)
(* An Optional[str] is modelled as a sequence of length 0 (None) or 1      *)
(* (<<s>>, the string s).  A list object is modelled by its identity: an   *)
(* index into `lists`, the sequence of all list objects created so far     *)
(* (0 is "no list").                                                       *)
(***************************************************************************)
EXTENDS Integers, Sequences, FiniteSets, TLC

\* ------------------------------------------------------------------ bounds
NumThreads == 2
MaxCalls == 3
MaxClears == 1
MaxCpus == 2

Threads == 1..NumThreads

\* ------------------------------------------------------- values of the model
None == <<>>
Some(s) == <<s>>
TokenValues == {None, Some(""), Some("T"), Some("U")}

\* Python truthiness of an Optional[str]: None and "" are falsy.
Truthy(v) == v # None /\ v[1] # ""

\* notification.slack.Slack(token): the handler object the shim builds.
Slack(tok) == [handler |-> "Slack", token |-> tok]

\* The handlers of the docstring's override, lambda: [H1, H2].
H1 == [handler |-> "H1", token |-> None]
H2 == [handler |-> "H2", token |-> None]
OverrideList == <<H1, H2>>

VARIABLES
    token,        \* what slack_token() returns now (the function may be rebound)
    binding,      \* what config.event_handlers is bound to: "default" | "override"
    cache,        \* the lru_cache entry for the key (): 0 (empty) or a list id
    cacheEpoch,   \* the value of epoch at the start of the call that filled the cache
    lists,        \* lists[i]: contents of the list object with identity i
    pc,           \* each thread's position in a call of event_handlers()
    tested,       \* per thread, in a call: the value line 92 read, as <<v>>
    bound,        \* per thread, in a call: the value line 94 read, as <<v>>
    result,       \* per thread, in a call: the contents the body is returning
    startEpoch,   \* per thread, in a call: the value of epoch when the call began
    ret,          \* per thread: outcome of its last finished call
    epoch,        \* number of cache_clear() calls so far
    calls,        \* number of event_handlers() calls begun
    tokenReads,   \* slack_token() invocations since the last cache_clear()
    bodyRuns,     \* executions of the default body since the last cache_clear()
    runs,         \* Slack(...) constructor invocations since the last cache_clear()
    fails,        \* of those, the ones that raised
    computed,     \* lists stored in the cache since the last cache_clear()
    overrideEvals,\* evaluations of the override lambda
    cpus,         \* what multiprocessing.cpu_count() returns on this host
    optOverride,  \* per option: <<>> (the default function) or <<v>> (rebound to lambda: v)
    optLast       \* per option: the values its last two calls returned

locals == <<tested, bound, result, startEpoch>>
counters == <<tokenReads, bodyRuns, runs, fails, computed>>
resolverVars == <<token, binding, cache, cacheEpoch, lists, pc, locals, ret, epoch,
                  calls, counters, overrideEvals>>
optionVars == <<cpus, optOverride, optLast>>
vars == <<resolverVars, optionVars>>

\* What a thread remembers of its last call: how it ended, the list it got, the
\* epoch it began in, the binding it reached, and what the cache held as it began.
NoRet == [kind |-> "none", id |-> 0, epoch |-> 0, via |-> "none", cached |-> 0]
Returned(i, e, v, c) == [kind |-> "list", id |-> i, epoch |-> e, via |-> v, cached |-> c]
Raised(e) == [kind |-> "raised", id |-> 0, epoch |-> e, via |-> "default", cached |-> 0]

\* The locals of a call are gone when it has returned.
DropLocals(t) ==
    /\ tested' = [tested EXCEPT ![t] = <<>>]
    /\ bound' = [bound EXCEPT ![t] = <<>>]
    /\ result' = [result EXCEPT ![t] = <<>>]
    /\ startEpoch' = [startEpoch EXCEPT ![t] = 0]

\* ------------------------------------------------------------ slack_token
\* The deprecated accessor; its default returns None, the embedding application
\* rebinds it to return a token.
slack_token == token

SetSlackToken(v) ==
    /\ v # token
    /\ token' = v
    /\ UNCHANGED <<binding, cache, cacheEpoch, lists, pc, locals, ret, epoch, calls,
                   counters, overrideEvals>>
    /\ UNCHANGED optionVars

\* ---------------------------------------------------------- event_handlers
\* config.event_handlers = lambda: [H1, H2]: the module attribute is rebound to a
\* plain function; the lru_cache wrapper is no longer what callers reach.
InstallOverride ==
    /\ binding = "default"
    /\ binding' = "override"
    /\ UNCHANGED <<token, cache, cacheEpoch, lists, pc, locals, ret, epoch, calls,
                   counters, overrideEvals>>
    /\ UNCHANGED optionVars

\* Faulty variant of CallOverride, for mutation analysis: the shim is applied on top of the override, so the token
\* is read and a legacy handler is appended.
CallOverrideAppliesShim(t) ==
    /\ pc[t] = "idle"
    /\ calls < MaxCalls
    /\ binding = "override"
    /\ calls' = calls + 1
    /\ overrideEvals' = overrideEvals + 1
    /\ tokenReads' = tokenReads + 1
    /\ lists' = Append(lists, IF Truthy(slack_token)
                                 THEN Append(OverrideList, Slack(slack_token))
                                 ELSE OverrideList)
    /\ ret' = [ret EXCEPT ![t] = Returned(Len(lists) + 1, epoch, "override", cache)]
    /\ UNCHANGED <<token, binding, cache, cacheEpoch, pc, locals, epoch, bodyRuns, runs,
                   fails, computed>>
    /\ UNCHANGED optionVars

\* A call that reaches the override: the lambda's body runs and builds a new list.
CallOverride(t) ==
    /\ pc[t] = "idle"
    /\ calls < MaxCalls
    /\ binding = "override"
    /\ calls' = calls + 1
    /\ overrideEvals' = overrideEvals + 1
    /\ lists' = Append(lists, OverrideList)
    /\ ret' = [ret EXCEPT ![t] = Returned(Len(lists) + 1, epoch, "override", cache)]
    /\ UNCHANGED <<token, binding, cache, cacheEpoch, pc, locals, epoch, counters>>
    /\ UNCHANGED optionVars

\* Faulty variant of CallHit, for mutation analysis: no memoization, the body runs on every call.
CallHitRecomputes(t) ==
    /\ pc[t] = "idle"
    /\ calls < MaxCalls
    /\ binding = "default"
    /\ cache # 0
    /\ calls' = calls + 1
    /\ bodyRuns' = bodyRuns + 1
    /\ pc' = [pc EXCEPT ![t] = "test"]
    /\ startEpoch' = [startEpoch EXCEPT ![t] = epoch]
    /\ UNCHANGED <<token, binding, cache, cacheEpoch, lists, tested, bound, result, ret,
                   epoch, tokenReads, runs, fails, computed, overrideEvals>>
    /\ UNCHANGED optionVars

\* lru_cache wrapper, cache hit: the cached object itself is returned.
CallHit(t) ==
    /\ pc[t] = "idle"
    /\ calls < MaxCalls
    /\ binding = "default"
    /\ cache # 0
    /\ calls' = calls + 1
    /\ ret' = [ret EXCEPT ![t] = Returned(cache, epoch, "default", cache)]
    /\ UNCHANGED <<token, binding, cache, cacheEpoch, lists, pc, locals, epoch,
                   counters, overrideEvals>>
    /\ UNCHANGED optionVars

\* lru_cache wrapper, cache miss: the wrapped body is entered.  Nothing marks the
\* key as being computed, so another thread's call misses as well.
CallMiss(t) ==
    /\ pc[t] = "idle"
    /\ calls < MaxCalls
    /\ binding = "default"
    /\ cache = 0
    /\ calls' = calls + 1
    /\ bodyRuns' = bodyRuns + 1
    /\ pc' = [pc EXCEPT ![t] = "test"]
    /\ startEpoch' = [startEpoch EXCEPT ![t] = epoch]
    /\ UNCHANGED <<token, binding, cache, cacheEpoch, lists, tested, bound, result, ret,
                   epoch, tokenReads, runs, fails, computed, overrideEvals>>
    /\ UNCHANGED optionVars

\* Line 92, `if slack_token():` and, when falsy, line 96, `return []`.
TestToken(t) ==
    /\ pc[t] = "test"
    /\ tokenReads' = tokenReads + 1
    /\ tested' = [tested EXCEPT ![t] = <<slack_token>>]
    /\ pc' = [pc EXCEPT ![t] = IF Truthy(slack_token) THEN "build" ELSE "store"]
    /\ UNCHANGED <<token, binding, cache, cacheEpoch, lists, bound, result, startEpoch,
                   ret, epoch, calls, bodyRuns, runs, fails, computed, overrideEvals>>
    /\ UNCHANGED optionVars

\* Faulty variant of ConstructOk, for mutation analysis: the handler is built from the value line 92 tested, and
\* slack_token() is not invoked again.
ConstructOkFromTested(t) ==
    /\ pc[t] = "build"
    /\ runs' = runs + 1
    /\ result' = [result EXCEPT ![t] = <<Slack(tested[t][1])>>]
    /\ pc' = [pc EXCEPT ![t] = "store"]
    /\ UNCHANGED <<token, binding, cache, cacheEpoch, lists, tested, bound, startEpoch,
                   ret, epoch, calls, tokenReads, bodyRuns, fails, computed,
                   overrideEvals>>
    /\ UNCHANGED optionVars

\* Lines 93-94, `return [Slack(slack_token())]`: slack_token() is invoked again and
\* the constructor runs on what it returns now.
ConstructOk(t) ==
    /\ pc[t] = "build"
    /\ tokenReads' = tokenReads + 1
    /\ bound' = [bound EXCEPT ![t] = <<slack_token>>]
    /\ runs' = runs + 1
    /\ result' = [result EXCEPT ![t] = <<Slack(slack_token)>>]
    /\ pc' = [pc EXCEPT ![t] = "store"]
    /\ UNCHANGED <<token, binding, cache, cacheEpoch, lists, tested, startEpoch, ret,
                   epoch, calls, bodyRuns, fails, computed, overrideEvals>>
    /\ UNCHANGED optionVars

\* Faulty variant of ConstructFail, for mutation analysis: the exception is swallowed and the empty list is
\* returned (and then cached) in its place.
ConstructFailMasked(t) ==
    /\ pc[t] = "build"
    /\ tokenReads' = tokenReads + 1
    /\ bound' = [bound EXCEPT ![t] = <<slack_token>>]
    /\ runs' = runs + 1
    /\ fails' = fails + 1
    /\ result' = [result EXCEPT ![t] = <<>>]
    /\ pc' = [pc EXCEPT ![t] = "store"]
    /\ UNCHANGED <<token, binding, cache, cacheEpoch, lists, tested, startEpoch, ret,
                   epoch, calls, bodyRuns, computed, overrideEvals>>
    /\ UNCHANGED optionVars

\* Lines 93-94 when the import or the constructor raises: the exception leaves the
\* body and the wrapper; lru_cache stores nothing for a call that raised.
ConstructFail(t) ==
    /\ pc[t] = "build"
    /\ tokenReads' = tokenReads + 1
    /\ runs' = runs + 1
    /\ fails' = fails + 1
    /\ pc' = [pc EXCEPT ![t] = "idle"]
    /\ ret' = [ret EXCEPT ![t] = Raised(startEpoch[t])]
    /\ DropLocals(t)
    /\ UNCHANGED <<token, binding, cache, cacheEpoch, lists, epoch, calls, bodyRuns,
                   computed, overrideEvals>>
    /\ UNCHANGED optionVars

\* lru_cache wrapper after the body returned: cache[key] = result; return result.
\* Whatever the cache holds by now is replaced.
Store(t) ==
    /\ pc[t] = "store"
    /\ lists' = Append(lists, result[t])
    /\ cache' = Len(lists) + 1
    /\ cacheEpoch' = startEpoch[t]
    /\ computed' = computed + 1
    /\ pc' = [pc EXCEPT ![t] = "idle"]
    /\ ret' = [ret EXCEPT ![t] = Returned(Len(lists) + 1, startEpoch[t], "default", 0)]
    /\ DropLocals(t)
    /\ UNCHANGED <<token, binding, epoch, calls, tokenReads, bodyRuns, runs, fails,
                   overrideEvals>>
    /\ UNCHANGED optionVars

\* Faulty variant of CacheClear, for mutation analysis: the statistics start again but the entry is kept.
CacheClearKeepsEntry ==
    /\ epoch < MaxClears
    /\ epoch' = epoch + 1
    /\ tokenReads' = 0
    /\ bodyRuns' = 0
    /\ runs' = 0
    /\ fails' = 0
    /\ computed' = 0
    /\ UNCHANGED <<token, binding, cache, cacheEpoch, lists, pc, locals, ret, calls,
                   overrideEvals>>
    /\ UNCHANGED optionVars

\* event_handlers.cache_clear() on the lru_cache wrapper: the entry is dropped and
\* the statistics start again.  Calls in flight are not affected.
CacheClear ==
    /\ epoch < MaxClears
    /\ epoch' = epoch + 1
    /\ cache' = 0
    /\ cacheEpoch' = 0
    /\ tokenReads' = 0
    /\ bodyRuns' = 0
    /\ runs' = 0
    /\ fails' = 0
    /\ computed' = 0
    /\ UNCHANGED <<token, binding, lists, pc, locals, ret, calls, overrideEvals>>
    /\ UNCHANGED optionVars

\* ------------------------------------------------------ the plain accessors
\* datetime.date(y, m, d), ordered as dates are: by year, then month, then day.
date(y, m, d) == <<y, m, d>>
DateLE(a, b) ==
    \/ a[1] < b[1]
    \/ a[1] = b[1] /\ a[2] < b[2]
    \/ a[1] = b[1] /\ a[2] = b[2] /\ a[3] <= b[3]

default_task_max_retries == 0
first_date == date(2000, 1, 1)
last_date == date(3000, 1, 1)
\* Faulty variant of max_number_of_parallel_tasks, for mutation analysis: one processor is left free.
MaxParallelLeavesOneFree == cpus - 1
max_number_of_parallel_tasks == cpus

OptionNames == {"default_task_max_retries", "first_date", "last_date",
                "max_number_of_parallel_tasks"}

DefaultValue(n) ==
    CASE n = "default_task_max_retries" -> default_task_max_retries
      [] n = "first_date" -> first_date
      [] n = "last_date" -> last_date
      [] n = "max_number_of_parallel_tasks" -> max_number_of_parallel_tasks

\* What the embedding application may rebind an option to return; the module does
\* not validate it.
OverrideValues(n) ==
    CASE n = "default_task_max_retries" -> {-1}
      [] n = "first_date" -> {date(3000, 1, 2)}
      [] n = "last_date" -> {date(1999, 12, 31)}
      [] n = "max_number_of_parallel_tasks" -> {0}

\* config.<n>(): the module attribute is looked up and called.
Accessor(n) == IF optOverride[n] = <<>> THEN DefaultValue(n) ELSE optOverride[n][1]

LastTwo(q) == IF Len(q) > 2 THEN Tail(q) ELSE q

CallOption(n) ==
    /\ optLast' = [optLast EXCEPT ![n] = LastTwo(Append(@, Accessor(n)))]
    /\ UNCHANGED <<cpus, optOverride>>
    /\ UNCHANGED resolverVars

\* config.<n> = lambda: v
OverrideOption(n, v) ==
    /\ optOverride[n] # <<v>>
    /\ optOverride' = [optOverride EXCEPT ![n] = <<v>>]
    /\ UNCHANGED <<cpus, optLast>>
    /\ UNCHANGED resolverVars

\* ------------------------------------------------------------------- Init
InitResolver ==
    /\ token = None
    /\ binding = "default"
    /\ cache = 0
    /\ cacheEpoch = 0
    /\ lists = <<>>
    /\ pc = [t \in Threads |-> "idle"]
    /\ tested = [t \in Threads |-> <<>>]
    /\ bound = [t \in Threads |-> <<>>]
    /\ result = [t \in Threads |-> <<>>]
    /\ startEpoch = [t \in Threads |-> 0]
    /\ ret = [t \in Threads |-> NoRet]
    /\ epoch = 0
    /\ calls = 0
    /\ tokenReads = 0
    /\ bodyRuns = 0
    /\ runs = 0
    /\ fails = 0
    /\ computed = 0
    /\ overrideEvals = 0

InitOptions ==
    /\ optOverride = [n \in OptionNames |-> <<>>]
    /\ optLast = [n \in OptionNames |-> <<>>]

\* The resolver never reads the host's processor count.
Init == InitResolver /\ InitOptions /\ cpus = 1

Steps ==
    \/ \E t \in Threads : TestToken(t)
    \/ \E t \in Threads : ConstructOk(t)
    \/ \E t \in Threads : ConstructFail(t)
    \/ \E t \in Threads : Store(t)

\* Threads call event_handlers() at any time, concurrently.
Next ==
    \/ \E v \in TokenValues : SetSlackToken(v)
    \/ InstallOverride
    \/ CacheClear
    \/ \E t \in Threads : CallOverride(t)
    \/ \E t \in Threads : CallHit(t)
    \/ \E t \in Threads : CallMiss(t)
    \/ Steps

Spec == Init /\ [][Next]_vars

\* Calls of event_handlers() and of cache_clear() follow one another: none begins
\* while another is in flight.  slack_token and event_handlers may be rebound at
\* any time.
Quiet == \A u \in Threads : pc[u] = "idle"

NextSeq ==
    \/ \E v \in TokenValues : SetSlackToken(v)
    \/ InstallOverride
    \/ Quiet /\ CacheClear
    \/ \E t \in Threads : Quiet /\ CallOverride(t)
    \/ \E t \in Threads : Quiet /\ CallHit(t)
    \/ \E t \in Threads : Quiet /\ CallMiss(t)
    \/ Steps

SpecSeq == Init /\ [][NextSeq]_vars

\* The accessors alone, on a host with any number of processors.
InitOptionsSpec == InitResolver /\ InitOptions /\ cpus \in 1..MaxCpus

NextOptions ==
    \/ \E n \in OptionNames : CallOption(n)
    \/ \E n \in OptionNames : \E v \in OverrideValues(n) : OverrideOption(n, v)

SpecOptions == InitOptionsSpec /\ [][NextOptions]_vars

\* =================================================================== claims

\* A step in which a call of event_handlers() begins.
CallBegins == calls' = calls + 1

\* C1 (SpecSeq): with the default binding, once a call has succeeded the list is
\* cached: every later call returns that very list object and runs neither the
\* body nor the constructor again, whatever slack_token() has come to return; one
\* list was computed, every other body run raised, and the constructor succeeded
\* once for each handler in the cached list.
C1_MemoizedOnce ==
    /\ [](binding = "default" /\ cache # 0 =>
            /\ computed = 1
            /\ bodyRuns = fails + 1
            /\ runs - fails = Len(lists[cache])
            /\ \A t \in Threads : pc[t] = "idle")
    /\ [][binding = "default" /\ cache # 0 /\ epoch' = epoch =>
            /\ cache' = cache
            /\ lists' = lists
            /\ counters' = counters
            /\ (CallBegins =>
                  \E t \in Threads : ret'[t] = Returned(cache, epoch, "default", cache))]_vars

\* C1 witness: a list built for token "T" is cached, slack_token() now returns
\* "U", and a later call got the cached list.
C1_Witness ==
    /\ binding = "default"
    /\ cache # 0
    /\ lists[cache] = <<Slack(Some("T"))>>
    /\ token = Some("U")
    /\ runs = 1
    /\ \E t, u \in Threads :
          /\ t # u
          /\ ret[t] = Returned(cache, epoch, "default", 0)
          /\ ret[u] = Returned(cache, epoch, "default", cache)

\* C2 (Spec): before any cache_clear() and with no constructor failure, the
\* Slack(...) constructor has run at most once, for every interleaving of the
\* callers.
C2_AtMostOneConstruction == epoch = 0 /\ fails = 0 => runs <= 1

\* C3 (Spec): before any cache_clear(), every caller of the default resolver got
\* the same list object, the one the cache holds for later calls.
C3_SameInstance ==
    \A t, u \in Threads :
        epoch = 0 /\ ret[t].kind = "list" /\ ret[t].via = "default"
                  /\ ret[u].kind = "list" /\ ret[u].via = "default"
            => ret[t].id = ret[u].id /\ ret[t].id = cache

\* C4 (Spec): a call of the default body that is about to return, and to which
\* slack_token() returned the same value v each time it asked, returns [Slack(v)]
\* when v is a present token (not None) and [] with no handler built when v is None.
C4_PresentTokenOneHandler ==
    \A t \in Threads :
        pc[t] = "store" /\ bound[t] \in {<<>>, tested[t]} =>
            IF tested[t][1] = None
                THEN result[t] = <<>> /\ bound[t] = <<>>
                ELSE result[t] = <<Slack(tested[t][1])>>

\* C5 (SpecSeq): with the override installed and a token configured, a call
\* returns a list [H1, H2], in that order, and the step neither invokes
\* slack_token() nor the Slack constructor nor enters the default body.
C5_OverrideWins ==
    [][binding = "override" /\ token # None /\ CallBegins =>
          /\ \E t \in Threads :
                /\ ret'[t].kind = "list"
                /\ ret'[t].via = "override"
                /\ ret'[t].id = Len(lists')
                /\ lists'[ret'[t].id] = <<H1, H2>>
          /\ counters' = counters
          /\ pc' = pc
          /\ cache' = cache]_vars

\* C5 witness: a token is configured, the override is installed and a call through
\* it returned [H1, H2] with slack_token() and the constructor never run.
C5_Witness ==
    /\ binding = "override"
    /\ token = Some("T")
    /\ tokenReads = 0
    /\ runs = 0
    /\ \E t \in Threads :
          ret[t].kind = "list" /\ ret[t].via = "override" /\ lists[ret[t].id] = <<H1, H2>>

\* C6 (Spec): the override function is evaluated at most once, and a call that
\* begins when the resolver is already Resolved(list) returns that list.
C6_OverrideResolvedOnce ==
    /\ overrideEvals <= 1
    /\ \A t \in Threads :
          ret[t].kind = "list" /\ ret[t].cached # 0 => ret[t].id = ret[t].cached

Returns(n) == {optLast[n][i] : i \in 1..Len(optLast[n])}

\* C8 (SpecOptions): while no option is overridden, every value the accessors
\* returned is in range (parallel tasks >= 1, retries >= 0, first_date 2000-01-01
\* <= last_date 3000-01-01), and two calls of an accessor returned the same value.
C8_DefaultsInRange ==
    (\A n \in OptionNames : optOverride[n] = <<>>) =>
        /\ \A v \in Returns("max_number_of_parallel_tasks") : v >= 1
        /\ \A v \in Returns("default_task_max_retries") : v >= 0
        /\ \A a \in Returns("first_date") : a = <<2000, 1, 1>>
        /\ \A b \in Returns("last_date") : b = <<3000, 1, 1>>
        /\ \A a \in Returns("first_date") : \A b \in Returns("last_date") : DateLE(a, b)
        /\ \A n \in OptionNames : Len(optLast[n]) = 2 => optLast[n][1] = optLast[n][2]

\* C8 witness: nothing is overridden and each accessor has been called twice.
C8_Witness ==
    /\ \A n \in OptionNames : optOverride[n] = <<>>
    /\ \A n \in OptionNames : Len(optLast[n]) = 2
    /\ DateLE(optLast["first_date"][2], optLast["last_date"][2])

\* C9 (SpecSeq): cache_clear() empties the cache (Unresolved); a call that finds it
\* empty runs the body, and the list in the cache is always one computed by a call
\* begun after the last cache_clear(); between two cache_clear() calls at most one
\* list is computed and a cached list stays.
C9_RecomputedOnlyAfterClear ==
    /\ [](/\ (cache # 0 => cacheEpoch = epoch)
          /\ computed <= 1
          /\ (cache = 0 <=> computed = 0)
          /\ \A t \in Threads : pc[t] # "idle" => startEpoch[t] = epoch)
    /\ [][epoch' # epoch => cache' = 0 /\ computed' = 0]_vars
    /\ [][epoch' = epoch /\ cache # 0 => cache' = cache /\ computed' = computed]_vars
    /\ [][binding = "default" /\ cache = 0 /\ CallBegins =>
            bodyRuns' = bodyRuns + 1 /\ computed' = 0]_vars

\* C9 witness: after a cache_clear() the list was computed again, from the token
\* of that moment, and differs from the one computed before.
C9_Witness ==
    /\ epoch = 1
    /\ cache = 2
    /\ cacheEpoch = 1
    /\ computed = 1
    /\ lists[1] = <<Slack(Some("T"))>>
    /\ lists[2] = <<>>
    /\ token = None

====
